---- MODULE Spec2Model ----
(***************************************************************************)
(* Model of package config (src/config/config.go): the default factory     *)
(* NewConfig and the validator Config.Validate.                             *)
(*                                                                          *)
(* Pattern strings and the output format are sequences of one-character    *)
(* strings, so that regexp.Compile and strings.ToLower are computed         *)
(* character by character.  Paths are opaque names; the answer of os.Stat   *)
(* for the configured search directory is the variable fs.                  *)
(***************************************************************************)
EXTENDS Integers, Sequences, FiniteSets, TLC

\* ------------------------------------------------------------------ bounds

\* runtime.NumCPU() ranges over 1..MaxCPU
MaxCPU == 1
\* the overlay sets Concurrency to a value in -1..MaxConcurrency
MaxConcurrency == 1
\* Validate is called at most MaxCalls times on the same Config
MaxCalls == 2

\* ----------------------------------------------------------------- strings

FormatJSON == <<"j", "s", "o", "n">>
FormatText == <<"t", "e", "x", "t">>

UpperLetters == <<"A", "B", "C", "D", "E", "F", "G", "H", "I", "J", "K", "L", "M",
                  "N", "O", "P", "Q", "R", "S", "T", "U", "V", "W", "X", "Y", "Z">>
LowerLetters == <<"a", "b", "c", "d", "e", "f", "g", "h", "i", "j", "k", "l", "m",
                  "n", "o", "p", "q", "r", "s", "t", "u", "v", "w", "x", "y", "z">>

\* unicode.ToLower on one ASCII character
ToLowerChar(ch) ==
    IF \E i \in DOMAIN UpperLetters : UpperLetters[i] = ch
    THEN LowerLetters[CHOOSE i \in DOMAIN UpperLetters : UpperLetters[i] = ch]
    ELSE ch

\* strings.ToLower that leaves its argument as it is
ToLower_None(s) == s

\* strings.ToLower
ToLower(s) == [i \in DOMAIN s |-> ToLowerChar(s[i])]

\* isOneOf(s, values...)
isOneOf(s, values) == \E i \in DOMAIN values : s = values[i]

\* ------------------------------------------------------------ regexp.Compile

NilRegexp == [set |-> FALSE, expr |-> <<>>]

RepeatChars == {"*", "+"}
\* characters that may follow a backslash: punctuation, and the Perl classes
\* and anchors that take no argument
EscapeOK == {".", "\\", "(", ")", "*", "+", "|", "$", "d", "s", "w", "b", "z"}

\* The syntax check of regexp.Compile on patterns written with letters, digits,
\* ".", "$", "\\", "(", ")", "|", "*" and "+": groups must balance, a repetition
\* needs an operand and may not follow another repetition, a backslash needs a
\* character it can escape.
\* One left-to-right pass of the parser over p from position i, with the number
\* of open groups and the kind of the preceding item:
\*   "none" (start, after "(" or "|"), "atom", "rep" (after a repetition)
RECURSIVE Parses(_, _, _, _)
Parses(p, i, depth, prev) ==
    IF i > Len(p) THEN depth = 0
    ELSE LET ch == p[i] IN
         CASE ch = "\\" ->
                  /\ i < Len(p)
                  /\ p[i + 1] \in EscapeOK
                  /\ Parses(p, i + 2, depth, "atom")
           [] ch = "(" -> Parses(p, i + 1, depth + 1, "none")
           [] ch = ")" -> depth > 0 /\ Parses(p, i + 1, depth - 1, "atom")
           [] ch = "|" -> Parses(p, i + 1, depth, "none")
           [] ch \in RepeatChars ->
                  prev = "atom" /\ Parses(p, i + 1, depth, "rep")
           [] OTHER -> Parses(p, i + 1, depth, "atom")

\* regexp.Compile(expr): (re, err) with re nil exactly when err is not
Compile(expr) ==
    IF Parses(expr, 1, 0, "none")
    THEN [ok |-> TRUE, re |-> [set |-> TRUE, expr |-> expr]]
    ELSE [ok |-> FALSE, re |-> NilRegexp]

\* ------------------------------------------------------------------ Config

DefaultFileRegex == <<".", "*", "\\", ".", "l", "o", "g", "$">>
DefaultArchiveRegex ==
    <<"\\", ".", "(", "7", "z", "|", "b", "z", "2", "|", "g", "z", "|",
      "t", "a", "r", "|", "x", "z", "|", "z", "i", "p", "|", "x", "z", "|",
      "z", "s", "t", "|", "l", "z", ")", "$">>

Max(a, b) == IF a >= b THEN a ELSE b

NewConfig(numCPU) ==
    [ PhraseRegex     |-> <<>>,
      PhraseRegexp    |-> NilRegexp,
      SearchDir       |-> ".",
      FileRegex       |-> DefaultFileRegex,
      FileRegexp      |-> NilRegexp,
      Deduplicate     |-> FALSE,
      Extended        |-> FALSE,
      IPsOnly         |-> FALSE,
      Output          |-> FormatText,
      ArchiveRegex    |-> DefaultArchiveRegex,
      ArchiveRegexp   |-> NilRegexp,
      IncludeArchives |-> FALSE,
      Concurrency     |-> Max(1, numCPU) ]

\* ------------------------------------------------------------------ errors

Nil == "nil"
ErrRegexRequired == "regex is required"
ErrInvalidRegex == "invalid regex"
ErrSearchDirRequired == "search dir is required"
ErrInvalidSearchDir == "invalid search dir"
ErrNotADirectory == "search dir is not a directory"
ErrFileRegexRequired == "file regex is required"
ErrInvalidFileRegex == "invalid file regex"
ErrInvalidOutput == "invalid output format"
ErrMutuallyExclusive == "extended and ips only flags are mutually exclusive"
ErrInvalidArchiveRegex == "invalid archive regex"
ErrConcurrency == "concurrency must be greater than 0"

\* ---------------------------------------------------------------- Validate
\* Each step takes the run so far, r = [cfg, err, stats], returns it unchanged
\* when an earlier step has returned an error, and otherwise does what the
\* code does between two returns.

\* the compiled phrase pattern is dropped instead of stored
ValidatePhrase_NoStore(r) ==
    IF r.err # Nil THEN r
    ELSE IF r.cfg.PhraseRegex = <<>> THEN [r EXCEPT !.err = ErrRegexRequired]
    ELSE LET c == Compile(r.cfg.PhraseRegex) IN
         IF ~c.ok THEN [r EXCEPT !.err = ErrInvalidRegex]
         ELSE r

ValidatePhrase(r) ==
    IF r.err # Nil THEN r
    ELSE IF r.cfg.PhraseRegex = <<>> THEN [r EXCEPT !.err = ErrRegexRequired]
    ELSE LET c == Compile(r.cfg.PhraseRegex) IN
         IF ~c.ok THEN [r EXCEPT !.err = ErrInvalidRegex]
         ELSE [r EXCEPT !.cfg.PhraseRegexp = c.re]

\* os.Stat is called before the empty-path check
ValidateSearchDir_StatFirst(r, answer) ==
    IF r.err # Nil THEN r
    ELSE LET s == [r EXCEPT !.stats = @ + 1] IN
         IF r.cfg.SearchDir = "" THEN [s EXCEPT !.err = ErrSearchDirRequired]
         ELSE IF answer = "notfound" THEN [s EXCEPT !.err = ErrInvalidSearchDir]
         ELSE IF answer # "dir" THEN [s EXCEPT !.err = ErrNotADirectory]
         ELSE s

ValidateSearchDir(r, answer) ==
    IF r.err # Nil THEN r
    ELSE IF r.cfg.SearchDir = "" THEN [r EXCEPT !.err = ErrSearchDirRequired]
    ELSE LET s == [r EXCEPT !.stats = @ + 1] IN
         IF answer = "notfound" THEN [s EXCEPT !.err = ErrInvalidSearchDir]
         ELSE IF answer # "dir" THEN [s EXCEPT !.err = ErrNotADirectory]
         ELSE s

ValidateFile(r) ==
    IF r.err # Nil THEN r
    ELSE IF r.cfg.FileRegex = <<>> THEN [r EXCEPT !.err = ErrFileRegexRequired]
    ELSE LET c == Compile(r.cfg.FileRegex) IN
         IF ~c.ok THEN [r EXCEPT !.err = ErrInvalidFileRegex]
         ELSE [r EXCEPT !.cfg.FileRegexp = c.re]

\* the normalized value is never stored back
ValidateOutput_NoStore(r) ==
    IF r.err # Nil THEN r
    ELSE LET allowed == <<FormatJSON, FormatText>>
             lOutput == ToLower(r.cfg.Output)
         IN IF ~isOneOf(lOutput, allowed) THEN [r EXCEPT !.err = ErrInvalidOutput]
            ELSE r

\* the normalized value is stored before the membership test
ValidateOutput_StoreBeforeCheck(r) ==
    IF r.err # Nil THEN r
    ELSE LET allowed == <<FormatJSON, FormatText>>
             lOutput == ToLower(r.cfg.Output)
             s == [r EXCEPT !.cfg.Output = lOutput]
         IN IF ~isOneOf(lOutput, allowed) THEN [s EXCEPT !.err = ErrInvalidOutput]
            ELSE s

\* the normalized value is stored, but the membership test reads the raw value
ValidateOutput_CheckRaw(r) ==
    IF r.err # Nil THEN r
    ELSE LET allowed == <<FormatJSON, FormatText>>
             lOutput == ToLower(r.cfg.Output)
             s == [r EXCEPT !.cfg.Output = lOutput]
         IN IF ~isOneOf(r.cfg.Output, allowed) THEN [s EXCEPT !.err = ErrInvalidOutput]
            ELSE s

ValidateOutput(r) ==
    IF r.err # Nil THEN r
    ELSE LET allowed == <<FormatJSON, FormatText>>
             lOutput == ToLower(r.cfg.Output)
         IN IF ~isOneOf(lOutput, allowed) THEN [r EXCEPT !.err = ErrInvalidOutput]
            ELSE [r EXCEPT !.cfg.Output = lOutput]

\* the exclusion test reads Deduplicate in place of IPsOnly
ValidateFlags_WrongField(r) ==
    IF r.err # Nil THEN r
    ELSE IF r.cfg.Extended /\ r.cfg.Deduplicate
         THEN [r EXCEPT !.err = ErrMutuallyExclusive]
         ELSE r

ValidateFlags(r) ==
    IF r.err # Nil THEN r
    ELSE IF r.cfg.Extended /\ r.cfg.IPsOnly
         THEN [r EXCEPT !.err = ErrMutuallyExclusive]
         ELSE r

\* the archive condition is a conjunction
ValidateArchive_And(r) ==
    IF r.err # Nil THEN r
    ELSE IF r.cfg.IncludeArchives /\ r.cfg.ArchiveRegex # <<>>
         THEN LET c == Compile(r.cfg.ArchiveRegex) IN
              IF ~c.ok THEN [r EXCEPT !.err = ErrInvalidArchiveRegex]
              ELSE [r EXCEPT !.cfg.ArchiveRegexp = c.re]
         ELSE r

ValidateArchive(r) ==
    IF r.err # Nil THEN r
    ELSE IF r.cfg.IncludeArchives \/ r.cfg.ArchiveRegex # <<>>
         THEN LET c == Compile(r.cfg.ArchiveRegex) IN
              IF ~c.ok THEN [r EXCEPT !.err = ErrInvalidArchiveRegex]
              ELSE [r EXCEPT !.cfg.ArchiveRegexp = c.re]
         ELSE r

\* the range test is off by one
ValidateConcurrency_OffByOne(r) ==
    IF r.err # Nil THEN r
    ELSE IF r.cfg.Concurrency < 0 THEN [r EXCEPT !.err = ErrConcurrency]
    ELSE r

ValidateConcurrency(r) ==
    IF r.err # Nil THEN r
    ELSE IF r.cfg.Concurrency < 1 THEN [r EXCEPT !.err = ErrConcurrency]
    ELSE r

\* the archive pattern is compiled before the flags are tested
Validate_ArchiveBeforeFlags(cfg, answer) ==
    ValidateConcurrency(
      ValidateFlags(
        ValidateArchive(
          ValidateOutput(
            ValidateFile(
              ValidateSearchDir(
                ValidatePhrase([cfg |-> cfg, err |-> Nil, stats |-> 0]),
                answer))))))

\* cfg.Validate() with os.Stat(cfg.SearchDir) answering `answer`
Validate(cfg, answer) ==
    ValidateConcurrency(
      ValidateArchive(
        ValidateFlags(
          ValidateOutput(
            ValidateFile(
              ValidateSearchDir(
                ValidatePhrase([cfg |-> cfg, err |-> Nil, stats |-> 0]),
                answer))))))

\* ------------------------------------------------------------------- inputs

StatAnswers == {"dir", "file", "notfound"}

PhraseInputs == { <<>>, <<"k", "i", "l", "l">>, <<"(", "k", "i", "l", "l">> }
SearchDirInputs == { "", "." }
FileInputs == { <<>>, DefaultFileRegex, <<"*", ".", "l", "o", "g">> }
OutputInputs == { FormatText, <<"J", "S", "O", "N">>, <<"T", "e", "x", "t">>,
                  <<"Y", "A", "M", "L">>, <<>> }
ArchiveInputs == { <<>>, DefaultArchiveRegex, <<"\\", ".", "(", "z", "i", "p">> }
ConcurrencyInputs == (-1)..MaxConcurrency

\* ------------------------------------------------------------ state machine

VARIABLES
    cfg,     \* the Config
    fs,      \* what os.Stat answers for cfg.SearchDir
    pc,      \* "new" after NewConfig, "ready" after the overlay
    calls    \* one record [pre, post, err, stats] per Validate call made

vars == <<cfg, fs, pc, calls>>

Init ==
    /\ \E n \in 1..MaxCPU : cfg = NewConfig(n)
    /\ fs \in StatAnswers
    /\ pc = "new"
    /\ calls = <<>>

\* the external overlay: every user-settable field takes a user-supplied value
\* or keeps its default; the compiled fields are not settable
Overlay ==
    /\ pc = "new"
    /\ \E p \in PhraseInputs, d \in SearchDirInputs, f \in FileInputs,
          o \in OutputInputs, a \in ArchiveInputs,
          n \in ConcurrencyInputs \cup {cfg.Concurrency},
          dd \in BOOLEAN, e \in BOOLEAN, io \in BOOLEAN, ia \in BOOLEAN :
          cfg' = [cfg EXCEPT !.PhraseRegex = p, !.SearchDir = d, !.FileRegex = f,
                             !.Output = o, !.ArchiveRegex = a, !.Concurrency = n,
                             !.Deduplicate = dd, !.Extended = e, !.IPsOnly = io,
                             !.IncludeArchives = ia]
    /\ pc' = "ready"
    /\ UNCHANGED <<fs, calls>>

CallValidate ==
    /\ pc = "ready"
    /\ Len(calls) < MaxCalls
    /\ LET r == Validate(cfg, fs) IN
          /\ cfg' = r.cfg
          /\ calls' = Append(calls, [pre |-> cfg, post |-> r.cfg,
                                     err |-> r.err, stats |-> r.stats])
    /\ UNCHANGED <<fs, pc>>

Next == Overlay \/ CallValidate

Spec == Init /\ [][Next]_vars

\* ------------------------------------------------------- the checks, restated
\* The ten checks of Validate as predicates of the Config before the call and
\* of the os.Stat answer, each taken on its own.

CheckFails(k, c, answer) ==
    CASE k = 1 -> c.PhraseRegex = <<>>
      [] k = 2 -> ~Compile(c.PhraseRegex).ok
      [] k = 3 -> c.SearchDir = ""
      [] k = 4 -> answer # "dir"
      [] k = 5 -> c.FileRegex = <<>>
      [] k = 6 -> ~Compile(c.FileRegex).ok
      [] k = 7 -> \A t \in {FormatJSON, FormatText} :
                     \/ Len(c.Output) # Len(t)
                     \/ \E i \in DOMAIN t :
                           /\ c.Output[i] # t[i]
                           /\ ~\E j \in DOMAIN LowerLetters :
                                  LowerLetters[j] = t[i] /\ UpperLetters[j] = c.Output[i]
      [] k = 8 -> c.Extended /\ c.IPsOnly
      [] k = 9 -> (c.IncludeArchives \/ c.ArchiveRegex # <<>>)
                  /\ ~Compile(c.ArchiveRegex).ok
      [] k = 10 -> c.Concurrency < 1

CheckNumbers == 1..10

FailingChecks(c, answer) == { k \in CheckNumbers : CheckFails(k, c, answer) }

\* checks lo..hi all pass
Pass(c, answer, lo, hi) == \A k \in lo..hi : ~CheckFails(k, c, answer)

FirstFailing(c, answer) ==
    LET failing == FailingChecks(c, answer)
    IN CHOOSE k \in failing : \A m \in failing : k <= m

ErrorOfCheck(k, answer) ==
    CASE k = 1 -> ErrRegexRequired
      [] k = 2 -> ErrInvalidRegex
      [] k = 3 -> ErrSearchDirRequired
      [] k = 4 -> IF answer = "notfound" THEN ErrInvalidSearchDir ELSE ErrNotADirectory
      [] k = 5 -> ErrFileRegexRequired
      [] k = 6 -> ErrInvalidFileRegex
      [] k = 7 -> ErrInvalidOutput
      [] k = 8 -> ErrMutuallyExclusive
      [] k = 9 -> ErrInvalidArchiveRegex
      [] k = 10 -> ErrConcurrency

\* the check a call stopped at, read off the error it returned (11: none)
StoppedAt(err) ==
    IF err = Nil THEN 11
    ELSE CHOOSE k \in CheckNumbers : \E a \in StatAnswers : ErrorOfCheck(k, a) = err

Calls == { calls[i] : i \in DOMAIN calls }

\* ------------------------------------------------------------------- claims

\* C1: whenever Validate returns no error the Config satisfies the seven
\* invariants: PhraseRegexp set and the compilation of PhraseRegex; SearchDir
\* reported as an existing directory; FileRegexp set and the compilation of
\* FileRegex; Output exactly "json" or "text"; Extended and IPsOnly not both
\* true; ArchiveRegexp set and the compilation of ArchiveRegex when
\* IncludeArchives is true or ArchiveRegex is non-empty; Concurrency >= 1.
C1_SuccessInvariants ==
    \A c \in Calls : c.err = Nil =>
        /\ c.post.PhraseRegexp.set
        /\ Compile(c.post.PhraseRegex) = [ok |-> TRUE, re |-> c.post.PhraseRegexp]
        /\ c.post.SearchDir # "" /\ fs = "dir"
        /\ c.post.FileRegexp.set
        /\ Compile(c.post.FileRegex) = [ok |-> TRUE, re |-> c.post.FileRegexp]
        /\ c.post.Output \in {FormatJSON, FormatText}
        /\ ~(c.post.Extended /\ c.post.IPsOnly)
        /\ (c.post.IncludeArchives \/ c.post.ArchiveRegex # <<>>) =>
              /\ c.post.ArchiveRegexp.set
              /\ Compile(c.post.ArchiveRegex) = [ok |-> TRUE, re |-> c.post.ArchiveRegexp]
        /\ c.post.Concurrency >= 1

C1_Witness ==
    \E c \in Calls :
        /\ c.err = Nil
        /\ c.post.IncludeArchives /\ c.post.ArchiveRegex = <<>>
        /\ c.pre.Output # c.post.Output

\* C2: the error Validate returns is the error of the lowest-numbered failing
\* check among the ten, and it returns nil exactly when no check fails.
C2_FirstFailingCheckDecides ==
    \A c \in Calls :
        IF FailingChecks(c.pre, fs) = {}
        THEN c.err = Nil
        ELSE c.err = ErrorOfCheck(FirstFailing(c.pre, fs), fs)

C2_Witness ==
    \E c \in Calls :
        /\ Cardinality(FailingChecks(c.pre, fs)) >= 3
        /\ FirstFailing(c.pre, fs) = 8
        /\ c.err = ErrMutuallyExclusive

\* a Config as NewConfig returns it, with only PhraseRegex, SearchDir and
\* Output (= "JSON") set by the user
DefaultsWithJSON(c) ==
    \E n \in 1..MaxCPU :
        c = [NewConfig(n) EXCEPT !.PhraseRegex = c.PhraseRegex,
                                 !.SearchDir = c.SearchDir,
                                 !.Output = <<"J", "S", "O", "N">>]

C3_Scenario(c) ==
    /\ DefaultsWithJSON(c.pre)
    /\ c.pre.PhraseRegex # <<>> /\ Compile(c.pre.PhraseRegex).ok
    /\ c.pre.SearchDir # "" /\ fs = "dir"

\* C3 as stated: in the scenario Validate succeeds, Output becomes "json",
\* PhraseRegexp and FileRegexp are set, and ArchiveRegexp is unset.
C3_AsStated ==
    \A c \in Calls : C3_Scenario(c) =>
        /\ c.err = Nil
        /\ c.post.Output = FormatJSON
        /\ c.post.PhraseRegexp.set /\ c.post.FileRegexp.set
        /\ ~c.post.ArchiveRegexp.set

\* C3 (amended): in the scenario Validate succeeds, Output becomes "json",
\* PhraseRegexp and FileRegexp are set, and ArchiveRegexp is set to the
\* compilation of the default (non-empty) ArchiveRegex.
C3_ScenarioCompilesArchive ==
    \A c \in Calls : C3_Scenario(c) =>
        /\ c.err = Nil
        /\ c.post.Output = FormatJSON
        /\ c.post.PhraseRegexp.set /\ c.post.FileRegexp.set
        /\ c.post.ArchiveRegexp = Compile(DefaultArchiveRegex).re
        /\ c.post.ArchiveRegexp.set

C3_Witness ==
    \E c \in Calls : C3_Scenario(c) /\ c.err = Nil /\ c.post.ArchiveRegexp.set

\* C4: with checks 1-6 passing, an Output that is not "json" or "text" up to
\* letter case is rejected with the invalid-output error and left as it was;
\* one that is passes the check and is overwritten with its lower-case form,
\* and with checks 8-10 passing too Validate succeeds with Output "json" or
\* "text".
C4_OutputNormalization ==
    \A c \in Calls : Pass(c.pre, fs, 1, 6) =>
        IF CheckFails(7, c.pre, fs)
        THEN c.err = ErrInvalidOutput /\ c.post.Output = c.pre.Output
        ELSE /\ c.err # ErrInvalidOutput
             /\ c.post.Output \in {FormatJSON, FormatText}
             /\ Len(c.post.Output) = Len(c.pre.Output)
             /\ \A i \in DOMAIN c.pre.Output :
                   \/ c.post.Output[i] = c.pre.Output[i]
                   \/ \E j \in DOMAIN UpperLetters :
                         /\ UpperLetters[j] = c.pre.Output[i]
                         /\ LowerLetters[j] = c.post.Output[i]
             /\ Pass(c.pre, fs, 8, 10) => c.err = Nil

C4_Witness ==
    \E c \in Calls :
        /\ c.pre.Output = <<"T", "e", "x", "t">>
        /\ c.post.Output = FormatText
        /\ c.err = Nil

\* C5: with checks 1-8 passing, ArchiveRegex is compiled, and an invalid one
\* rejected with the invalid-archive-regex error, exactly when IncludeArchives
\* is true or ArchiveRegex is non-empty; with IncludeArchives false and
\* ArchiveRegex empty there is no archive error and ArchiveRegexp stays unset.
C5_ArchiveConditionIsOr ==
    \A c \in Calls :
        LET active == c.pre.IncludeArchives \/ c.pre.ArchiveRegex # <<>>
            compiled == Compile(c.pre.ArchiveRegex)
        IN IF Pass(c.pre, fs, 1, 8) /\ active
           THEN IF compiled.ok
                THEN /\ c.err # ErrInvalidArchiveRegex
                     /\ c.post.ArchiveRegexp.set
                     /\ c.post.ArchiveRegexp = compiled.re
                ELSE /\ c.err = ErrInvalidArchiveRegex
                     /\ c.post.ArchiveRegexp = c.pre.ArchiveRegexp
           ELSE /\ c.err # ErrInvalidArchiveRegex
                /\ c.post.ArchiveRegexp = c.pre.ArchiveRegexp
                /\ ~active => ~c.post.ArchiveRegexp.set

C5_Witness ==
    \E c \in Calls :
        /\ ~c.pre.IncludeArchives /\ c.pre.ArchiveRegex # <<>>
        /\ ~c.pre.ArchiveRegexp.set
        /\ c.err = Nil /\ c.post.ArchiveRegexp.set

\* C6: with Extended and IPsOnly both true and checks 1-7 passing, Validate
\* returns the mutually-exclusive error whatever checks 9 and 10 would say;
\* and no Config with both flags true is accepted.
C6_MutuallyExclusiveFlags ==
    \A c \in Calls : (c.pre.Extended /\ c.pre.IPsOnly) =>
        /\ c.err # Nil
        /\ Pass(c.pre, fs, 1, 7) => c.err = ErrMutuallyExclusive

C6_Witness ==
    \E c \in Calls :
        /\ c.pre.Extended /\ c.pre.IPsOnly
        /\ CheckFails(9, c.pre, fs) /\ CheckFails(10, c.pre, fs)
        /\ c.err = ErrMutuallyExclusive

\* C7 as stated: every call with Concurrency <= 0 returns the concurrency
\* error.
C7_AsStated ==
    \A c \in Calls : c.pre.Concurrency <= 0 => c.err = ErrConcurrency

\* C7 (amended): a call with Concurrency <= 0 never succeeds, and returns the
\* concurrency error when checks 1-9 pass; with Concurrency >= 1 the
\* concurrency error is never returned.
C7_ConcurrencyRange ==
    \A c \in Calls :
        /\ c.pre.Concurrency <= 0 =>
              /\ c.err # Nil
              /\ Pass(c.pre, fs, 1, 9) => c.err = ErrConcurrency
        /\ c.pre.Concurrency >= 1 => c.err # ErrConcurrency

C7_Witness ==
    \E c \in Calls : c.pre.Concurrency = 0 /\ c.err = ErrConcurrency

\* C8 as stated: every call of Validate performs exactly one os.Stat.
C8_AsStated ==
    \A c \in Calls : c.stats = 1

\* C8 (amended): every call of Validate performs at most one os.Stat, and
\* exactly one when checks 1-3 pass (PhraseRegex non-empty and compilable,
\* SearchDir non-empty); otherwise none.
C8_AtMostOneStat ==
    \A c \in Calls :
        /\ c.stats <= 1
        /\ c.stats = 1 <=> Pass(c.pre, fs, 1, 3)

C8_Witness ==
    /\ Len(calls) = 2
    /\ calls[1].stats = 0 /\ calls[1].err = ErrSearchDirRequired
    /\ calls[2].stats = 0

\* C9: a second call of Validate on the Config as the first call left it, with
\* the same os.Stat answer, returns what the first call returned and leaves
\* every field as the first call left it.
C9_RevalidationReproduces ==
    \A i \in DOMAIN calls : i > 1 =>
        /\ calls[i].pre = calls[i - 1].post
        /\ calls[i].err = calls[i - 1].err
        /\ calls[i].post = calls[i - 1].post

C9_Witness ==
    /\ Len(calls) >= 2
    /\ calls[1].pre.Output = <<"J", "S", "O", "N">>
    /\ calls[1].post.Output = FormatJSON
    /\ calls[1].err = ErrInvalidArchiveRegex
    /\ calls[2].err = ErrInvalidArchiveRegex

UserFields ==
    {"PhraseRegex", "SearchDir", "FileRegex", "ArchiveRegex", "Deduplicate",
     "Extended", "IPsOnly", "IncludeArchives", "Concurrency"}

\* C10: Validate never modifies the user-supplied fields; a call that stops at
\* check k leaves PhraseRegexp as it was when k <= 2, FileRegexp when k <= 6,
\* Output when k <= 7 and ArchiveRegexp when k <= 9.
C10_Frame ==
    \A c \in Calls :
        LET k == StoppedAt(c.err) IN
        /\ \A f \in UserFields : c.post[f] = c.pre[f]
        /\ k <= 2 => c.post.PhraseRegexp = c.pre.PhraseRegexp
        /\ k <= 6 => c.post.FileRegexp = c.pre.FileRegexp
        /\ k <= 7 => c.post.Output = c.pre.Output
        /\ k <= 9 => c.post.ArchiveRegexp = c.pre.ArchiveRegexp

C10_Witness ==
    \E c \in Calls :
        /\ StoppedAt(c.err) = 7
        /\ c.pre.Output = <<"Y", "A", "M", "L">>
        /\ c.post.PhraseRegexp # c.pre.PhraseRegexp
        /\ c.post.FileRegexp # c.pre.FileRegexp
        /\ c.post.ArchiveRegexp = c.pre.ArchiveRegexp

====
